---- MODULE Spec2Model ----
(***************************************************************************)
(* Model of the melanoma TIL analysis scripts:                             *)
(*   scripts_melanoma_analysis/01_tsv_to_geojson.py        (Stage 1)       *)
(*   scripts_melanoma_analysis/02_filter_nuclei_tumor_area.py (Stage 2)    *)
(*                                                                         *)
(* Five state machines share the module, each with its own specification:  *)
(*   Spec      one Stage 2 process running process_geojson_files           *)
(*   SpecConc  two Stage 2 processes over the same directories             *)
(*   SpecJoin  the spatial filtering of one sample (lines 109-119)         *)
(*   SpecGrid  add_percentage_columns on one grid                          *)
(*   SpecS1    Stage 1, process_subfolder over the rows of a subfolder     *)
(* A specification leaves the variables of the other machines at their     *)
(* idle values.                                                            *)
(***************************************************************************)
EXTENDS Integers, Sequences, FiniteSets

VARIABLES
    \* ---- Stage 2, process_geojson_files ----
    insts,            \* the running Stage 2 processes
    nuclei_files,     \* os.listdir(nuclei_geojson_folder), a sequence
    tissue_files,     \* os.listdir(tissue_geojson_folder), as a set
    tissueSize,       \* os.path.getsize of each tissue file
    csv,              \* stems whose <stem>.csv exists in results_path
    lock,             \* stems whose <stem>.lock exists in results_path
    geo,              \* stems whose filtered feature collection exists
    k,                \* per process: position of the for loop in nuclei_files
    pc,               \* per process: the statement it is about to execute
    exc,              \* per process: the exception that ended it, if any
    tumor_filter,     \* per process: indices of the tissue rows named "tumor"
    necrosis_filter,  \* per process: indices of the tissue rows named "necrosis"
    retained,         \* per process: nuclei_within_tumor_not_necrosis (abstract)
    grid,             \* per process: the value of the local variable grid
    badLabel,         \* per process: the tissue read last had an unparsable label
                      \* and nothing else that lines 88-110 object to
    printed,          \* the messages printed so far, as <<stem, message>>
    removed,          \* stems whose lock marker the program has removed
    wrote,            \* per process: this iteration has written the feature collection
    caught,           \* the failures caught so far, as <<stem, message, wrote>>
    runs,             \* per process: invocations of main started so far
    \* ---- spatial filtering of one sample ----
    jn,
    \* ---- add_percentage_columns ----
    gr,
    \* ---- Stage 1 ----
    s1

stage2vars == <<insts, nuclei_files, tissue_files, tissueSize, csv, lock, geo, k, pc,
                exc, tumor_filter, necrosis_filter, retained, grid, badLabel,
                printed, removed, wrote, caught, runs>>
vars == <<stage2vars, jn, gr, s1>>

----------------------------------------------------------------------------
(* Bounds of the model *)

\* Invocations of main per process (the first run and the later ones).
MaxRuns == 2
\* Features in a tissue file read by process_geojson_files.
MaxTissueFeat == 2

----------------------------------------------------------------------------
(* Python values of the 'classification' property *)

PyNone == [t |-> "None", v |-> ""]
PyStr(s) == [t |-> "str", v |-> s]
PyList(s) == [t |-> "list", v |-> s]
PyDict(keys, name) == [t |-> "dict", keys |-> keys, name |-> name]

\* bool(x) of Python
Truthy(x) ==
    CASE x.t = "None" -> FALSE
      [] x.t = "str"  -> x.v # ""
      [] x.t = "list" -> x.v # "[]"
      [] x.t = "dict" -> x.keys # {}

\* The serialized labels of the model and what json.loads makes of them.
JsonLoads(s) ==
    CASE s = "{\"name\": \"Tumor\"}"    -> [ok |-> TRUE, val |-> PyDict({"name"}, PyStr("Tumor"))]
      [] s = "{\"name\": \"necrosis\"}" -> [ok |-> TRUE, val |-> PyDict({"name"}, PyStr("necrosis"))]
      [] s = "{}"                       -> [ok |-> TRUE, val |-> PyDict({}, PyNone)]
      [] s = "[1]"                      -> [ok |-> TRUE, val |-> PyList("[1]")]
      [] s = "null"                     -> [ok |-> TRUE, val |-> PyNone]
      [] OTHER                          -> [ok |-> FALSE, val |-> PyNone]

\* str.lower() on the names of the model
Lower(s) ==
    CASE s = "Tumor"    -> "tumor"
      [] s = "TUMOR"    -> "tumor"
      [] s = "Necrosis" -> "necrosis"
      [] s = "Stroma"   -> "stroma"
      [] OTHER          -> s

\* parse_classification, lines 90-100
parse_classification(x) ==
    IF x.t = "str"
    THEN IF JsonLoads(x.v).ok THEN JsonLoads(x.v).val ELSE PyDict({"name"}, PyNone)
    ELSE IF x.t = "dict" THEN x ELSE PyDict({"name"}, PyNone)

\* dict.get("name", "")
GetName(x) == IF "name" \in x.keys THEN x.name ELSE PyStr("")

\* line 102: lambda x: x.get("name", "").lower() if x else None
TissueClassName(x) ==
    IF ~Truthy(x) THEN [exc |-> "", val |-> PyNone]
    ELSE IF x.t # "dict" THEN [exc |-> "AttributeError", val |-> PyNone]
    ELSE IF GetName(x).t # "str" THEN [exc |-> "AttributeError", val |-> PyNone]
    ELSE [exc |-> "", val |-> PyStr(Lower(GetName(x).v))]

\* line 104: lambda x: x.get("name", "")
NucleiClassName(x) ==
    IF x.t # "dict" THEN [exc |-> "AttributeError", val |-> PyNone]
    ELSE [exc |-> "", val |-> GetName(x)]

----------------------------------------------------------------------------
(* What read_gdf can return for a tissue or a nuclei file *)

RECURSIVE SeqsUpTo(_, _)
SeqsUpTo(S, n) ==
    IF n = 0 THEN {<<>>}
    ELSE LET shorter == SeqsUpTo(S, n - 1)
         IN shorter \cup {Append(q, x) : q \in {r \in shorter : Len(r) = n - 1}, x \in S}

\* Features in a nuclei file read by process_geojson_files.
MaxNucleiFeat == 1

TissueLabels ==
    { PyDict({"name"}, PyStr("Tumor")),
      PyDict({"name"}, PyStr("necrosis")),
      PyStr("{\"name\": \"Tumor\"}"),
      PyStr("Tumor"),
      PyStr("[1]"),
      PyNone }

NucleiLabels ==
    { PyDict({"name"}, PyStr("nuclei_tumor")),
      PyStr("nuclei_tumor"),
      PyStr("[1]") }

\* A frame as far as lines 88-110 read it: whether it has a 'classification'
\* column, and that column's values by row index.
Frames(labels, n) ==
    {[has_classification |-> FALSE, classification |-> <<>>]}
    \cup {[has_classification |-> TRUE, classification |-> q] : q \in SeqsUpTo(labels, n)}

TissueInputs == Frames(TissueLabels, MaxTissueFeat)
NucleiInputs == Frames(NucleiLabels, MaxNucleiFeat)

\* A string label that json.loads rejects.
Unparsable(x) == x.t = "str" /\ ~JsonLoads(x.v).ok
HasUnparsable(t) == \E j \in 1..Len(t.classification) : Unparsable(t.classification[j])
\* the frame t with its unparsable labels nulled (line 89 then drops those rows)
WithoutUnparsable(t) ==
    [t EXCEPT !.classification =
        [j \in 1..Len(t.classification) |->
            IF Unparsable(t.classification[j]) THEN PyNone ELSE t.classification[j]]]

\* line 89: the rows whose classification is not null
NotNull(t) == {j \in 1..Len(t.classification) : t.classification[j].t # "None"}

\* lines 101-102 for row j
TissueRowName(t, j) == TissueClassName(parse_classification(t.classification[j]))
\* lines 103-104 for row j
NucleiRowName(n, j) == NucleiClassName(parse_classification(n.classification[j]))

\* Lines 88-110 on the frames tissue and nuclei: the exception raised, if any, and
\* the two region filters.
Classify(tissue, nuclei) ==
    LET none == [out |-> "", tumor |-> {}, necrosis |-> {}]
    IN  IF ~tissue.has_classification THEN [none EXCEPT !.out = "KeyError"]
        ELSE IF \E j \in NotNull(tissue) : TissueRowName(tissue, j).exc # ""
        THEN [none EXCEPT !.out = "AttributeError"]
        ELSE IF ~nuclei.has_classification THEN [none EXCEPT !.out = "KeyError"]
        ELSE IF \E j \in 1..Len(nuclei.classification) : NucleiRowName(nuclei, j).exc # ""
        THEN [none EXCEPT !.out = "AttributeError"]
        ELSE [out |-> "ok",
              tumor |-> {j \in NotNull(tissue) : TissueRowName(tissue, j).val = PyStr("tumor")},
              necrosis |-> {j \in NotNull(tissue) : TissueRowName(tissue, j).val = PyStr("necrosis")}]

----------------------------------------------------------------------------
(* Stage 2: process_geojson_files, lines 53-139 *)

\* Path(geojson).stem for the file names of the model
Stem(f) ==
    CASE f = "a.geojson" -> "a"
      [] f = "b.geojson" -> "b"
      [] f = "n.geojson" -> "n"

\* the sample process i is at
Cur(i) == Stem(nuclei_files[k[i]])

NoLocals == [tumor |-> {}, necrosis |-> {}, retained |-> "unset", grid |-> "unset"]

\* The locals tumor_filter, necrosis_filter, nuclei_within_tumor_not_necrosis and
\* grid are assigned again before they are read, so they are reset when an
\* iteration ends.
SetLocals(i, l) ==
    /\ tumor_filter' = [tumor_filter EXCEPT ![i] = l.tumor]
    /\ necrosis_filter' = [necrosis_filter EXCEPT ![i] = l.necrosis]
    /\ retained' = [retained EXCEPT ![i] = l.retained]
    /\ grid' = [grid EXCEPT ![i] = l.grid]

Locals(i) == [tumor |-> tumor_filter[i], necrosis |-> necrosis_filter[i],
              retained |-> retained[i], grid |-> grid[i]]

Say(i, msg) == printed' = printed \cup {<<Cur(i), msg>>}

Goto(i, label) == pc' = [pc EXCEPT ![i] = label] /\ UNCHANGED <<k, exc>>

\* 'continue', or the end of the loop body
Continue(i) ==
    /\ k' = [k EXCEPT ![i] = @ + 1]
    /\ pc' = [pc EXCEPT ![i] = "for"]
    /\ SetLocals(i, NoLocals)
    /\ wrote' = [wrote EXCEPT ![i] = FALSE]
    /\ UNCHANGED exc

\* 'continue' in a handler that caught a failure and printed msg
Caught(i, msg) ==
    /\ Say(i, msg)
    /\ caught' = caught \cup {<<Cur(i), msg, wrote[i]>>}
    /\ Continue(i)

\* an exception no handler of process_geojson_files catches
Raise(i, step, type) ==
    /\ pc' = [pc EXCEPT ![i] = "raised"]
    /\ exc' = [exc EXCEPT ![i] = [step |-> step, type |-> type]]
    /\ UNCHANGED k


inputs == <<insts, nuclei_files, tissue_files, tissueSize>>
files == <<csv, lock, geo>>
locals == <<tumor_filter, necrosis_filter, retained, grid>>
history == <<removed, wrote, caught>>
others == <<jn, gr, s1>>

\* lines 54-55 and 139
ForLoop(i) ==
    /\ pc[i] = "for"
    /\ IF k[i] > Len(nuclei_files)
       THEN pc' = [pc EXCEPT ![i] = "done"] /\ UNCHANGED k
       ELSE IF nuclei_files[k[i]] \in tissue_files
            THEN pc' = [pc EXCEPT ![i] = "chk_csv"] /\ UNCHANGED k
            ELSE k' = [k EXCEPT ![i] = @ + 1] /\ UNCHANGED pc
    /\ UNCHANGED <<inputs, files, locals, history, exc, badLabel, printed, runs, others>>

\* lines 59-61 without the test: an existing output table is not noticed
CheckOutput_Unchecked(i) ==
    /\ pc[i] = "chk_csv"
    /\ Goto(i, "chk_lock") /\ UNCHANGED <<locals, printed, wrote>>
    /\ UNCHANGED <<inputs, files, removed, caught, badLabel, runs, others>>

\* lines 59-61
CheckOutput(i) ==
    /\ pc[i] = "chk_csv"
    /\ IF Cur(i) \in csv
       THEN Say(i, "already exists") /\ Continue(i)
       ELSE Goto(i, "chk_lock") /\ UNCHANGED <<locals, printed, wrote>>
    /\ UNCHANGED <<inputs, files, removed, caught, badLabel, runs, others>>

\* lines 63-65 without the test: an existing lock marker is not noticed
CheckLock_Unchecked(i) ==
    /\ pc[i] = "chk_lock"
    /\ Goto(i, "create_lock") /\ UNCHANGED <<locals, printed, wrote>>
    /\ UNCHANGED <<inputs, files, removed, caught, badLabel, runs, others>>

\* lines 63-65
CheckLock(i) ==
    /\ pc[i] = "chk_lock"
    /\ IF Cur(i) \in lock
       THEN Say(i, "locked") /\ Continue(i)
       ELSE Goto(i, "create_lock") /\ UNCHANGED <<locals, printed, wrote>>
    /\ UNCHANGED <<inputs, files, removed, caught, badLabel, runs, others>>

\* line 67
CreateLock(i) ==
    /\ pc[i] = "create_lock"
    /\ lock' = lock \cup {Cur(i)}
    /\ Goto(i, "chk_size")
    /\ UNCHANGED <<inputs, csv, geo, locals, history, badLabel, printed, runs, others>>

\* lines 69-74
CheckSize(i) ==
    /\ pc[i] = "chk_size"
    /\ IF tissueSize[nuclei_files[k[i]]] < 2 * 1024
       THEN Say(i, "tissue file is smaller than 2KB") /\ Continue(i)
       ELSE Say(i, "Processing") /\ Goto(i, "load_tissue") /\ UNCHANGED <<locals, wrote>>
    /\ UNCHANGED <<inputs, files, removed, caught, badLabel, runs, others>>

\* lines 76-80 (ok: read_gdf returns) and 82-86
LoadFile(i, at, next) ==
    /\ pc[i] = at
    /\ \E ok \in BOOLEAN :
         IF ok
         THEN Goto(i, next) /\ UNCHANGED <<locals, printed, wrote>>
         ELSE Say(i, "error loading data") /\ Continue(i)
    /\ UNCHANGED <<inputs, files, removed, caught, badLabel, runs, others>>

LoadTissue(i) == LoadFile(i, "load_tissue", "load_nuclei")
LoadNuclei(i) == LoadFile(i, "load_nuclei", "classify")

\* What lines 88-110 can come to, over the frames the two read_gdf calls can
\* return: the exception and filters, and whether the tissue had an unparsable
\* label and nothing else that these lines object to.
ClassifyOutcomes ==
    {[r |-> Classify(tissue, nuclei),
      bad |-> /\ HasUnparsable(tissue)
              /\ Classify(WithoutUnparsable(tissue), nuclei).out = "ok"] :
        tissue \in TissueInputs, nuclei \in NucleiInputs}

\* lines 88-110, on the frames the two read_gdf calls returned
Normalize(i) ==
    /\ pc[i] = "classify"
    /\ \E o \in ClassifyOutcomes :
         /\ badLabel' = [badLabel EXCEPT ![i] = o.bad]
         /\ CASE o.r.out = "ok" ->
                   /\ Goto(i, "sjoin")
                   /\ SetLocals(i, [Locals(i) EXCEPT !.tumor = o.r.tumor,
                                                     !.necrosis = o.r.necrosis])
                   /\ UNCHANGED <<printed, wrote, caught>>
              [] o.r.out = "KeyError" ->
                   Caught(i, "missing key in classification")
              [] o.r.out = "AttributeError" ->
                   /\ Raise(i, "classify", "AttributeError")
                   /\ UNCHANGED <<locals, printed, wrote, caught>>
    /\ UNCHANGED <<inputs, files, removed, runs, others>>

\* lines 112-122 with a handler that releases the lock marker before 'continue'
SpatialJoin_Releasing(i) ==
    /\ pc[i] = "sjoin"
    /\ \E out \in {"raise", "empty"} \cup (IF tumor_filter[i] = {} THEN {} ELSE {"nonempty"}) :
         IF out = "raise"
         THEN /\ Caught(i, "Error during spatial join or data cleanup")
              /\ lock' = lock \ {Cur(i)}
         ELSE /\ Goto(i, "to_file")
              /\ SetLocals(i, [Locals(i) EXCEPT !.retained = out])
              /\ UNCHANGED <<printed, wrote, caught, lock>>
    /\ UNCHANGED <<inputs, csv, geo, removed, badLabel, runs, others>>

\* lines 112-122: the joins raise, or leave a retained set; with no tumor
\* polygon the first inner join, and so the retained set, is empty
SpatialJoin(i) ==
    /\ pc[i] = "sjoin"
    /\ \E out \in {"raise", "empty"} \cup (IF tumor_filter[i] = {} THEN {} ELSE {"nonempty"}) :
         IF out = "raise"
         THEN Caught(i, "Error during spatial join or data cleanup")
         ELSE /\ Goto(i, "to_file")
              /\ SetLocals(i, [Locals(i) EXCEPT !.retained = out])
              /\ UNCHANGED <<printed, wrote, caught>>
    /\ UNCHANGED <<inputs, files, removed, badLabel, runs, others>>

\* lines 124-125
WriteGeojson(i) ==
    /\ pc[i] = "to_file"
    /\ \E ok \in BOOLEAN :
         IF ok
         THEN /\ geo' = geo \cup {Cur(i)}
              /\ wrote' = [wrote EXCEPT ![i] = TRUE]
              /\ Goto(i, "grid")
         ELSE /\ Raise(i, "to_file", "Exception")
              /\ UNCHANGED <<geo, wrote>>
    /\ UNCHANGED <<inputs, csv, lock, locals, removed, caught, badLabel, printed, runs, others>>

\* lines 127-132: grid_overlay or add_percentage_columns raises, or
\* add_percentage_columns returns None (always for empty nuclei, lines 17-19) or
\* the grid
GridStep(i) ==
    /\ pc[i] = "grid"
    /\ \E out \in {"raise", "None"} \cup (IF retained[i] = "empty" THEN {} ELSE {"grid"}) :
         IF out = "raise"
         THEN Caught(i, "Error during grid overlay or percentage calculation")
         ELSE /\ Goto(i, "to_csv")
              /\ SetLocals(i, [Locals(i) EXCEPT !.grid = out])
              /\ UNCHANGED <<printed, wrote, caught>>
    /\ UNCHANGED <<inputs, files, removed, badLabel, runs, others>>

\* lines 134-135
WriteCsv(i) ==
    /\ pc[i] = "to_csv"
    /\ IF grid[i] # "None"
       THEN \E ok \in BOOLEAN :
              IF ok
              THEN csv' = csv \cup {Cur(i)} /\ Goto(i, "remove_lock")
              ELSE Raise(i, "to_csv", "Exception") /\ UNCHANGED csv
       ELSE Goto(i, "remove_lock") /\ UNCHANGED csv
    /\ UNCHANGED <<inputs, lock, geo, locals, history, badLabel, printed, runs, others>>

\* line 137: os.remove raises when the marker is gone or cannot be removed
RemoveLock(i) ==
    /\ pc[i] = "remove_lock"
    /\ \E ok \in (IF Cur(i) \in lock THEN BOOLEAN ELSE {FALSE}) :
         IF ok
         THEN /\ lock' = lock \ {Cur(i)}
              /\ removed' = removed \cup {Cur(i)}
              /\ Continue(i)
         ELSE /\ Raise(i, "remove_lock", "OSError")
              /\ UNCHANGED <<lock, removed, locals, wrote>>
    /\ UNCHANGED <<inputs, csv, geo, caught, badLabel, printed, runs, others>>

\* main, lines 141-167: a later invocation over the same directories
Rerun(i) ==
    /\ pc[i] \in {"done", "raised"}
    /\ runs[i] < MaxRuns
    /\ runs' = [runs EXCEPT ![i] = @ + 1]
    /\ k' = [k EXCEPT ![i] = 1]
    /\ pc' = [pc EXCEPT ![i] = "for"]
    /\ exc' = [exc EXCEPT ![i] = [step |-> "", type |-> ""]]
    /\ SetLocals(i, NoLocals)
    /\ wrote' = [wrote EXCEPT ![i] = FALSE]
    /\ UNCHANGED <<inputs, files, removed, caught, badLabel, printed, others>>

\* one step of the loop of process i
Step(i) ==
    \/ ForLoop(i)
    \/ CheckOutput(i)
    \/ CheckLock(i)
    \/ CreateLock(i)
    \/ CheckSize(i)
    \/ LoadTissue(i)
    \/ LoadNuclei(i)
    \/ Normalize(i)
    \/ SpatialJoin(i)
    \/ WriteGeojson(i)
    \/ GridStep(i)
    \/ WriteCsv(i)
    \/ RemoveLock(i)

Idle == [at |-> "idle"]

Stems == {"a", "b"}

Stage2Init(procs, listing, sizes, outs, locks) ==
    /\ insts = procs
    /\ nuclei_files = listing
    /\ tissue_files = {"a.geojson", "b.geojson"}
    /\ tissueSize \in [tissue_files -> sizes]
    /\ csv \in outs
    /\ lock \in locks
    /\ geo = {}
    /\ k = [i \in procs |-> 1]
    /\ pc = [i \in procs |-> "for"]
    /\ exc = [i \in procs |-> [step |-> "", type |-> ""]]
    /\ tumor_filter = [i \in procs |-> {}]
    /\ necrosis_filter = [i \in procs |-> {}]
    /\ retained = [i \in procs |-> "unset"]
    /\ grid = [i \in procs |-> "unset"]
    /\ badLabel = [i \in procs |-> FALSE]
    /\ printed = {}
    /\ removed = {}
    /\ wrote = [i \in procs |-> FALSE]
    /\ caught = {}
    /\ runs = [i \in procs |-> 1]
    /\ jn = Idle
    /\ gr = Idle
    /\ s1 = Idle

\* One process, run MaxRuns times over three nuclei files, one of them without a
\* tissue file; any output table or lock marker may be there beforehand.
Init == Stage2Init({1}, <<"a.geojson", "n.geojson", "b.geojson">>, {2047, 2048},
                   SUBSET Stems, SUBSET Stems)
Next == \E i \in insts : Step(i) \/ Rerun(i)
Spec == Init /\ [][Next]_vars

\* Two processes started once each over the same directories, which hold no
\* output yet.
InitConc == Stage2Init({1, 2}, <<"a.geojson">>, {2047, 2048}, {{}}, {{}})
NextConc == \E i \in insts : Step(i)
SpecConc == InitConc /\ [][NextConc]_vars

----------------------------------------------------------------------------
(* Spatial filtering of one sample, lines 109-119 *)

\* Nuclei and tissue polygons read for one sample.
MaxNuclei == 2
MaxTissue == 3

\* A geometry is the set of the points of the plane it covers.
Points == {1, 2}
NucleiGeoms == (SUBSET Points) \ {{}}
TissueGeoms == {{1}, {1, 2}}

\* the predicates of the spatial index
Within(a, b) == a \subseteq b
Intersects(a, b) == a \cap b # {}

\* the rows of a frame, with their index labels (read_gdf numbers the rows)
NucleiFrames ==
    {[j \in 1..Len(q) |-> [index |-> j, geometry |-> q[j], class_name |-> "nuclei_tumor"]] :
        q \in SeqsUpTo(NucleiGeoms, MaxNuclei)}
TissueFrames ==
    {[j \in 1..Len(q) |-> [index |-> j, geometry |-> q[j][1], class_name |-> q[j][2]]] :
        q \in SeqsUpTo(TissueGeoms \X {"tumor", "necrosis", "stroma"}, MaxTissue)}

\* lines 109-110: tissue[tissue["class_name"] == name]
ClassFilter(tissue, name) == SelectSeq(tissue, LAMBDA r : r.class_name = name)

RECURSIVE Concat(_)
Concat(qs) == IF qs = <<>> THEN <<>> ELSE Head(qs) \o Concat(Tail(qs))

\* gpd.sjoin(left, right, how='inner', predicate='within'): one row per pair of a
\* left row and a right row whose geometry the left one lies within; the row keeps
\* the index label and the columns of the left row
sjoin(left, right) ==
    Concat([l \in 1..Len(left) |->
              Concat([r \in 1..Len(right) |->
                        IF Within(left[l].geometry, right[r].geometry)
                        THEN <<left[l]>>
                        ELSE <<>>])])

\* drop_duplicates(subset=['geometry']): the first row of each geometry stays
RECURSIVE drop_duplicates(_, _)
drop_duplicates(rows, seen) ==
    IF rows = <<>> THEN <<>>
    ELSE IF Head(rows).geometry \in seen THEN drop_duplicates(Tail(rows), seen)
    ELSE <<Head(rows)>> \o drop_duplicates(Tail(rows), seen \cup {Head(rows).geometry})

\* lines 113-115
NucleiWithinTumor(nuclei, tumor) == sjoin(nuclei, tumor)

\* lines 116-118, without the drop_duplicates of line 119
NucleiWithinTumorNotNecrosis_Duplicated(nuclei_within_tumor, necrosis) ==
    LET nuclei_within_necrosis == sjoin(nuclei_within_tumor, necrosis)
        nuclei_within_necrosis_ids ==
            {nuclei_within_necrosis[j].index : j \in 1..Len(nuclei_within_necrosis)}
    IN  SelectSeq(nuclei_within_tumor, LAMBDA r : r.index \notin nuclei_within_necrosis_ids)

\* lines 116-119
NucleiWithinTumorNotNecrosis(nuclei_within_tumor, necrosis) ==
    LET nuclei_within_necrosis == sjoin(nuclei_within_tumor, necrosis)
        nuclei_within_necrosis_ids ==
            {nuclei_within_necrosis[j].index : j \in 1..Len(nuclei_within_necrosis)}
        not_necrosis == SelectSeq(nuclei_within_tumor,
                                  LAMBDA r : r.index \notin nuclei_within_necrosis_ids)
    IN  drop_duplicates(not_necrosis, {})

JoinInit ==
    /\ \E nuclei \in NucleiFrames, tissue \in TissueFrames :
         jn = [at |-> "sjoin_tumor", nuclei |-> nuclei, tissue |-> tissue,
               nuclei_within_tumor |-> <<>>, nuclei_within_tumor_not_necrosis |-> <<>>]
    /\ insts = {} /\ nuclei_files = <<>> /\ tissue_files = {} /\ tissueSize = <<>>
    /\ csv = {} /\ lock = {} /\ geo = {}
    /\ k = <<>> /\ pc = <<>> /\ exc = <<>>
    /\ tumor_filter = <<>> /\ necrosis_filter = <<>> /\ retained = <<>> /\ grid = <<>>
    /\ badLabel = <<>> /\ printed = {} /\ removed = {} /\ wrote = <<>> /\ caught = {}
    /\ runs = <<>>
    /\ gr = Idle
    /\ s1 = Idle

\* lines 109 and 113-115
JoinTumor ==
    /\ jn.at = "sjoin_tumor"
    /\ jn' = [jn EXCEPT !.at = "sjoin_necrosis",
                        !.nuclei_within_tumor =
                            NucleiWithinTumor(jn.nuclei, ClassFilter(jn.tissue, "tumor"))]
    /\ UNCHANGED <<stage2vars, gr, s1>>

\* lines 110 and 116-119
JoinNecrosis ==
    /\ jn.at = "sjoin_necrosis"
    /\ jn' = [jn EXCEPT !.at = "done",
                        !.nuclei_within_tumor_not_necrosis =
                            NucleiWithinTumorNotNecrosis(jn.nuclei_within_tumor,
                                                         ClassFilter(jn.tissue, "necrosis"))]
    /\ UNCHANGED <<stage2vars, gr, s1>>

JoinNext == JoinTumor \/ JoinNecrosis
SpecJoin == JoinInit /\ [][JoinNext]_vars

\* the tissue polygons of a class that the geometry g lies within
Around(g, name) ==
    {j \in 1..Len(jn.tissue) :
        jn.tissue[j].class_name = name /\ Within(g, jn.tissue[j].geometry)}

\* C1: every retained nucleus is a nucleus of the sample that lies within at least
\* one tumor polygon and within no necrosis polygon, and no two retained nuclei
\* have the same geometry.
C1_RetainedWithinTumorNotNecrosis ==
    jn.at = "done" =>
        LET out == jn.nuclei_within_tumor_not_necrosis
        IN  /\ \A p \in 1..Len(out) :
                 /\ out[p].index \in 1..Len(jn.nuclei)
                 /\ out[p] = jn.nuclei[out[p].index]
                 /\ Around(out[p].geometry, "tumor") # {}
                 /\ Around(out[p].geometry, "necrosis") = {}
            /\ \A p, q \in 1..Len(out) : out[p].geometry = out[q].geometry => p = q

\* two nuclei of one geometry within two tumor polygons are retained as one, and a
\* nucleus within two necrosis polygons is dropped
C1_Witness ==
    /\ jn.at = "done"
    /\ Len(jn.nuclei) = 2 /\ jn.nuclei[1].geometry = jn.nuclei[2].geometry
    /\ Cardinality(Around(jn.nuclei[1].geometry, "tumor")) = 2
    /\ Len(jn.nuclei_within_tumor) = 4
    /\ Len(jn.nuclei_within_tumor_not_necrosis) = 1

\* a nucleus within a tumor polygon and within two necrosis polygons is not retained
C1_WitnessNecrosis ==
    /\ jn.at = "done"
    /\ Len(jn.nuclei) = 1
    /\ Around(jn.nuclei[1].geometry, "tumor") # {}
    /\ Cardinality(Around(jn.nuclei[1].geometry, "necrosis")) = 2
    /\ jn.nuclei_within_tumor_not_necrosis = <<>>

----------------------------------------------------------------------------
(* Grid statistics: add_percentage_columns, lines 11-51 *)

\* Nuclei and grid cells handed to add_percentage_columns.
MaxGridNuclei == 2
MaxCells == 2

\* the tiles of the grid do not overlap
CellGeoms == {{1}, {2}}
NucleiClasses == {"nuclei_tumor", "nuclei_lymphocyte"}

RECURSIVE GCD(_, _)
GCD(a, b) == IF b = 0 THEN a ELSE GCD(b, a % b)

\* Floats are exact fractions in lowest terms, NaN and inf apart.
NaN == [num |-> 0, den |-> 0]
Inf == [num |-> 1, den |-> 0]
Float(n, d) == [num |-> n \div GCD(n, d), den |-> d \div GCD(n, d)]
\* a / b on two columns of counts: 0 / 0 is NaN, n / 0 is inf
Divide(a, b) == IF b # 0 THEN Float(a, b) ELSE IF a = 0 THEN NaN ELSE Inf
\* x * 100
Times100(x) == IF x.den = 0 THEN x ELSE Float(100 * x.num, x.den)
\* fillna(0)
fillna(x) == IF x = NaN THEN Float(0, 1) ELSE x

None == [is_none |-> TRUE, has_class_name |-> FALSE, rows |-> <<>>]
Frame(rows) == [is_none |-> FALSE, has_class_name |-> TRUE, rows |-> rows]

\* lines 11-14
get_total_cell_cnt_per_class(gdf, class_name) ==
    IF gdf.is_none THEN 0
    ELSE Len(SelectSeq(gdf.rows, LAMBDA r : r.class_name = class_name))

\* nuclei['class_name'].unique(): the values in the order of their first row
RECURSIVE unique(_, _)
unique(rows, seen) ==
    IF rows = <<>> THEN <<>>
    ELSE IF Head(rows).class_name \in seen THEN unique(Tail(rows), seen)
    ELSE <<Head(rows).class_name>> \o unique(Tail(rows), seen \cup {Head(rows).class_name})

\* grid[name] = values, for a grid whose row j holds its columns in cols
SetColumn(rows, name, values) ==
    [j \in 1..Len(rows) |->
        [rows[j] EXCEPT !.cols = [c \in DOMAIN rows[j].cols \cup {name} |->
                                    IF c = name THEN values[j] ELSE rows[j].cols[c]]]]

\* grid_classify(grid, objs, metric_func, predicate="intersects", new_col_names):
\* the new column holds metric_func of the objects that intersect the cell, and of
\* None where no object does
grid_classify(rows, objs, class_name) ==
    SetColumn(rows, "total_cnt_" \o class_name,
        [j \in 1..Len(rows) |->
            LET hit == SelectSeq(objs.rows, LAMBDA r : Intersects(r.geometry, rows[j].geometry))
            IN  get_total_cell_cnt_per_class(IF hit = <<>> THEN None ELSE Frame(hit),
                                             class_name)])

\* lines 27-35
RECURSIVE ClassifyAll(_, _, _)
ClassifyAll(rows, nuclei, names) ==
    IF names = <<>> THEN rows
    ELSE ClassifyAll(grid_classify(rows, nuclei, Head(names)), nuclei, Tail(names))

\* grid[[...]].sum(axis=1) for row r
RECURSIVE RowSum(_, _)
RowSum(r, names) ==
    IF names = <<>> THEN 0 ELSE r.cols["total_cnt_" \o Head(names)] + RowSum(r, Tail(names))

\* lines 44-45 for one class, without the fillna of line 46
PercentageColumn_NaN(rows, class_name) ==
    SetColumn(rows, class_name \o "_percentage",
        [j \in 1..Len(rows) |->
            Times100(Divide(rows[j].cols["total_cnt_" \o class_name],
                            rows[j].cols["total_cell_cnt"]))])

\* lines 44-46 for one class
PercentageColumn(rows, class_name) ==
    SetColumn(rows, class_name \o "_percentage",
        [j \in 1..Len(rows) |->
            fillna(Times100(Divide(rows[j].cols["total_cnt_" \o class_name],
                                   rows[j].cols["total_cell_cnt"])))])

\* lines 43-46
RECURSIVE Percentages(_, _)
Percentages(rows, names) ==
    IF names = <<>> THEN rows
    ELSE Percentages(PercentageColumn(rows, Head(names)), Tail(names))

\* lines 16-51; grid and the result are frames, or None
add_percentage_columns(grid_in, nuclei) ==
    IF nuclei.is_none \/ nuclei.rows = <<>> THEN None
    ELSE IF ~nuclei.has_class_name THEN None
    ELSE LET unique_class_names == unique(nuclei.rows, {})
             classified == ClassifyAll(grid_in.rows, nuclei, unique_class_names)
         IN  IF classified = <<>> THEN None
             ELSE LET total == SetColumn(classified, "total_cell_cnt",
                                         [j \in 1..Len(classified) |->
                                             RowSum(classified[j], unique_class_names)])
                  IN  Frame(Percentages(total, unique_class_names))

GridNuclei ==
    {None}
    \cup {[is_none |-> FALSE, has_class_name |-> FALSE,
           rows |-> <<[geometry |-> {1}]>>]}
    \cup {Frame([j \in 1..Len(q) |-> [geometry |-> q[j][1], class_name |-> q[j][2]]]) :
            q \in SeqsUpTo(NucleiGeoms \X NucleiClasses, MaxGridNuclei)}

Grids ==
    {Frame([j \in 1..Len(q) |-> [geometry |-> q[j], cols |-> <<>>]]) :
        q \in SeqsUpTo(CellGeoms, MaxCells)}

GridInit ==
    /\ \E g \in Grids, nuclei \in GridNuclei :
         gr = [at |-> "call", grid |-> g, nuclei |-> nuclei, result |-> None]
    /\ insts = {} /\ nuclei_files = <<>> /\ tissue_files = {} /\ tissueSize = <<>>
    /\ csv = {} /\ lock = {} /\ geo = {}
    /\ k = <<>> /\ pc = <<>> /\ exc = <<>>
    /\ tumor_filter = <<>> /\ necrosis_filter = <<>> /\ retained = <<>> /\ grid = <<>>
    /\ badLabel = <<>> /\ printed = {} /\ removed = {} /\ wrote = <<>> /\ caught = {}
    /\ runs = <<>>
    /\ jn = Idle
    /\ s1 = Idle

\* line 129
AddPercentageColumns ==
    /\ gr.at = "call"
    /\ gr' = [gr EXCEPT !.at = "returned",
                        !.result = add_percentage_columns(gr.grid, gr.nuclei)]
    /\ UNCHANGED <<stage2vars, jn, s1>>

GridNext == AddPercentageColumns
SpecGrid == GridInit /\ [][GridNext]_vars

\* the classes observed among the nuclei handed in
Observed == {gr.nuclei.rows[j].class_name : j \in 1..Len(gr.nuclei.rows)}

RECURSIVE SumOver(_, _)
SumOver(cols, S) ==
    IF S = {} THEN 0
    ELSE LET c == CHOOSE x \in S : TRUE
         IN  cols["total_cnt_" \o c] + SumOver(cols, S \ {c})

\* C2: in every cell of a returned grid total_cell_cnt is the sum of the
\* total_cnt_<class> columns over the observed classes, and <class>_percentage is
\* 100 * total_cnt_<class> / total_cell_cnt when total_cell_cnt > 0 and 0 when
\* total_cell_cnt is 0.
C2_TotalsAndPercentages ==
    gr.at = "returned" /\ ~gr.result.is_none =>
        \A j \in 1..Len(gr.result.rows) :
            LET cols == gr.result.rows[j].cols
            IN  /\ cols["total_cell_cnt"] = SumOver(cols, Observed)
                /\ \A c \in Observed :
                     cols[c \o "_percentage"] =
                        IF cols["total_cell_cnt"] > 0
                        THEN Float(100 * cols["total_cnt_" \o c], cols["total_cell_cnt"])
                        ELSE Float(0, 1)

\* a returned grid with a cell no nucleus intersects and a cell holding nuclei of
\* two classes
C2_Witness ==
    /\ gr.at = "returned" /\ ~gr.result.is_none
    /\ Observed = NucleiClasses
    /\ Len(gr.result.rows) = 2
    /\ gr.result.rows[1].cols["total_cell_cnt"] = 0
    /\ gr.result.rows[1].cols["nuclei_tumor_percentage"] = Float(0, 1)
    /\ gr.result.rows[2].cols["total_cell_cnt"] = 2
    /\ gr.result.rows[2].cols["nuclei_tumor_percentage"] = Float(50, 1)
    /\ gr.result.rows[2].cols["nuclei_lymphocyte_percentage"] = Float(50, 1)

----------------------------------------------------------------------------
(* Stage 1: 01_tsv_to_geojson.py *)

\* Rows in the TSV files of one subfolder.
MaxRows == 2

\* the table keyed by the class names without their prefix
COLORS_Bare(name) ==
    CASE name = "lymphocyte" -> <<0, 255, 255>>
      [] name = "tumor"      -> <<255, 0, 0>>
      [] name = "other"      -> <<255, 255, 0>>
      [] OTHER               -> <<0, 0, 0>>

\* lines 9-13, with dict.get's fallback of line 59
COLORS(name) ==
    CASE name = "nuclei_lymphocyte" -> <<0, 255, 255>>
      [] name = "nuclei_tumor"      -> <<255, 0, 0>>
      [] name = "nuclei_other"      -> <<255, 255, 0>>
      [] OTHER                      -> <<0, 0, 0>>

\* lines 16-24; size / 2 is a float
create_square_polygon(x, y, size) ==
    LET lo(c) == Float(2 * c - size, 2)
        hi(c) == Float(2 * c + size, 2)
    IN  << <<lo(x), lo(y)>>, <<hi(x), lo(y)>>, <<hi(x), hi(y)>>, <<lo(x), hi(y)>>,
           <<lo(x), lo(y)>> >>

\* lines 46-62; uuid4 is modelled by a number not used before
Feature(row, id) ==
    [type |-> "Feature",
     id |-> id,
     geometry |-> [type |-> "Polygon",
                   coordinates |-> <<create_square_polygon(row.x, row.y, 15)>>],
     properties |-> [objectType |-> "annotation",
                     classification |-> [name |-> row.name, color |-> COLORS(row.name)]]]

RowNames == {"nuclei_lymphocyte", "nuclei_tumor", "nuclei_other",
             "lymphocyte", "tumor", "other", "stroma"}
Rows == [x : {10, 20}, y : {10}, name : RowNames]

\* what a subfolder holds: no TSV file, or the rows of its TSV files in order
Subfolders ==
    {[tsv |-> FALSE, rows |-> <<>>]}
    \cup {[tsv |-> TRUE, rows |-> q] : q \in SeqsUpTo(Rows, MaxRows)}

S1Init ==
    /\ \E present \in SUBSET {"s1.geojson", "s2.geojson"} :
         s1 = [at |-> "main", todo |-> <<"s2", "s1">>, outputs |-> present,
               data |-> <<>>, next |-> 1, nextId |-> 1, features |-> <<>>]
    /\ insts = {} /\ nuclei_files = <<>> /\ tissue_files = {} /\ tissueSize = <<>>
    /\ csv = {} /\ lock = {} /\ geo = {}
    /\ k = <<>> /\ pc = <<>> /\ exc = <<>>
    /\ tumor_filter = <<>> /\ necrosis_filter = <<>> /\ retained = <<>> /\ grid = <<>>
    /\ badLabel = <<>> /\ printed = {} /\ removed = {} /\ wrote = <<>> /\ caught = {}
    /\ runs = <<>>
    /\ jn = Idle
    /\ gr = Idle

\* the output file of the subfolder at the head of the list, lines 82-83
OutputFile(sub) == sub \o ".geojson"

\* main, lines 80-89, and process_subfolder up to line 38
S1Main ==
    /\ s1.at = "main"
    /\ IF s1.todo = <<>>
       THEN s1' = [s1 EXCEPT !.at = "done"]
       ELSE IF OutputFile(Head(s1.todo)) \in s1.outputs
            THEN s1' = [s1 EXCEPT !.todo = Tail(@)]
            ELSE \E sub \in Subfolders :
                   IF ~sub.tsv
                   THEN s1' = [s1 EXCEPT !.todo = Tail(@)]
                   ELSE s1' = [s1 EXCEPT !.at = "rows", !.data = sub.rows, !.next = 1,
                                         !.features = <<>>]
    /\ UNCHANGED <<stage2vars, jn, gr>>

\* lines 45-63, one row
S1Row ==
    /\ s1.at = "rows"
    /\ s1.next <= Len(s1.data)
    /\ s1' = [s1 EXCEPT !.features = Append(@, Feature(s1.data[s1.next], s1.nextId)),
                        !.next = @ + 1,
                        !.nextId = @ + 1]
    /\ UNCHANGED <<stage2vars, jn, gr>>

\* lines 67-72
S1Write ==
    /\ s1.at = "rows"
    /\ s1.next > Len(s1.data)
    /\ s1' = [s1 EXCEPT !.at = "main", !.outputs = @ \cup {OutputFile(Head(s1.todo))},
                        !.todo = Tail(@), !.data = <<>>, !.next = 1, !.features = <<>>]
    /\ UNCHANGED <<stage2vars, jn, gr>>

S1Next == S1Main \/ S1Row \/ S1Write
SpecS1 == S1Init /\ [][S1Next]_vars

\* the features synthesized so far in the subfolder being processed
Synthesized == IF s1.at = "rows" THEN 1..Len(s1.features) ELSE {}
Label(j) == s1.features[j].properties.classification

\* C10 (as claimed): the color of a feature is looked up under the keys lymphocyte,
\* tumor and other, and is black for every other class name.
C10_ColorsKeyedByBareName ==
    \A j \in Synthesized :
        LET name == s1.data[j].name
        IN  Label(j).color =
                CASE name = "lymphocyte" -> <<0, 255, 255>>
                  [] name = "tumor"      -> <<255, 0, 0>>
                  [] name = "other"      -> <<255, 255, 0>>
                  [] OTHER               -> <<0, 0, 0>>

\* C10 (amended): the color of a feature is (0,255,255) for the class name
\* nuclei_lymphocyte, (255,0,0) for nuclei_tumor, (255,255,0) for nuclei_other and
\* (0,0,0) for every other class name; the classification name is the row's
\* class name unchanged.
C10_ColorsKeyedByNucleiName ==
    \A j \in Synthesized :
        LET name == s1.data[j].name
        IN  /\ Label(j).name = name
            /\ name = "nuclei_lymphocyte" => Label(j).color = <<0, 255, 255>>
            /\ name = "nuclei_tumor" => Label(j).color = <<255, 0, 0>>
            /\ name = "nuclei_other" => Label(j).color = <<255, 255, 0>>
            /\ name \notin {"nuclei_lymphocyte", "nuclei_tumor", "nuclei_other"}
                  => Label(j).color = <<0, 0, 0>>

\* a subfolder with a nuclei_tumor row and a tumor row has been synthesized
C10_Witness ==
    /\ s1.at = "rows" /\ Len(s1.features) = 2
    /\ s1.data[1].name = "nuclei_tumor" /\ Label(1).color = <<255, 0, 0>>
    /\ s1.data[2].name = "tumor" /\ Label(2).color = <<0, 0, 0>>

----------------------------------------------------------------------------
(* Properties of Stage 2 *)

\* the statements after the lock marker was created, lines 69-137
Working == {"chk_size", "load_tissue", "load_nuclei", "classify", "sjoin", "to_file",
            "grid", "to_csv", "remove_lock"}

\* the messages of the handlers that catch a failure after the marker was created
CaughtBeforeWrite == {"missing key in classification",
                      "Error during spatial join or data cleanup"}
CaughtGrid == "Error during grid overlay or percentage calculation"

\* C3: a sample is eligible exactly when neither <stem>.csv nor <stem>.lock exists
\* when its iteration checks them: with either present the iteration ends at the
\* check and changes no file, with neither present it goes on to create the marker.
C3_EligibleIffNoOutputNoLock ==
    [][\A i \in insts :
         pc[i] \in {"chk_csv", "chk_lock"} /\ pc'[i] # pc[i] =>
            IF Cur(i) \in csv \/ Cur(i) \in lock
            THEN /\ files' = files
                 /\ \/ pc'[i] = "for" /\ k'[i] = k[i] + 1
                    \/ pc[i] = "chk_csv" /\ Cur(i) \notin csv /\ pc'[i] = "chk_lock"
            ELSE /\ pc'[i] = (IF pc[i] = "chk_csv" THEN "chk_lock" ELSE "create_lock")
                 /\ k'[i] = k[i]]_vars

\* a sample was skipped for its marker, which is still there, and nothing was
\* written for it; the other sample was admitted
C3_Witness ==
    /\ <<"a", "locked">> \in printed
    /\ "a" \in lock /\ "a" \notin csv /\ "a" \notin geo
    /\ <<"b", "Processing">> \in printed

\* C4 (as claimed): a lock marker the program removed belongs to a sample whose
\* output table exists.
C4_LockRemovedOnlyAfterTable == removed \subseteq csv

\* C5 (as claimed): after a run that skipped a sample for its small tissue file,
\* the sample has neither an output table nor a lock marker.
C5_SmallTissueLeavesNothing ==
    \A s \in Stems :
        (\A i \in insts : pc[i] = "done") /\ <<s, "tissue file is smaller than 2KB">> \in printed
            => s \notin lock /\ s \notin csv

\* what holds of a sample s after a caught failure of its processing
StaysLocked(s) ==
    /\ s \in lock
    /\ s \notin csv
    /\ \A i \in insts : k[i] <= Len(nuclei_files) /\ pc[i] \in {"create_lock"} \cup Working
                          => Cur(i) # s

\* a handler that caught a failure goes on to the next file
CaughtEndsOnlySample ==
    [][\A i \in insts : caught' # caught /\ pc'[i] # pc[i]
            => pc'[i] = "for" /\ k'[i] = k[i] + 1]_vars

\* C6 (as claimed): after any caught failure behind the lock marker the
\* processing of the sample had written no output file, the marker stays and
\* the sample is skipped from then on.
C6_CaughtFailureLeavesNoOutput ==
    \A c \in caught : StaysLocked(c[1]) /\ ~c[3]

\* C6 (amended): after a caught failure behind the lock marker the sample has no
\* output table, the marker stays and every later iteration skips the sample;
\* the processing had not written the filtered feature collection when
\* classification or the spatial join failed, and had written it when the grid
\* step failed. The handler ends only that sample.
C6_CaughtFailureKeepsLock ==
    /\ [](\A c \in caught : StaysLocked(c[1]) /\ (c[3] <=> c[2] = CaughtGrid))
    /\ CaughtEndsOnlySample

\* the spatial join of sample a and the grid step of sample b failed in the first
\* run, and the second run has skipped sample a for its marker
C6_Witness ==
    /\ <<"a", "Error during spatial join or data cleanup", FALSE>> \in caught
    /\ <<"b", CaughtGrid, TRUE>> \in caught
    /\ runs[1] = 2 /\ k[1] > 1
    /\ <<"a", "locked">> \in printed

\* C7 (as claimed): no failure in one sample ends process_geojson_files.
C7_FailuresContained == \A i \in insts : pc[i] # "raised"

\* C8 (as claimed): a tissue whose only irregular labels are strings that fail to
\* parse gets through lines 88-110 without an error.
C8_UnparsableLabelContinues ==
    \A i \in insts : badLabel[i] => ~(pc[i] = "raised" /\ exc[i].step = "classify")

\* C9: a process that checks the lock marker of a sample after the other process
\* created it skips the sample and leaves the marker alone.
C9_LateCheckSkips ==
    [][\A i \in insts :
         pc[i] = "chk_lock" /\ Cur(i) \in lock /\ pc'[i] # pc[i]
            => /\ pc'[i] = "for" /\ k'[i] = k[i] + 1
               /\ <<Cur(i), "locked">> \in printed'
               /\ lock' = lock]_vars

\* both processes saw neither marker nor table for sample a and both are
\* processing it
C9_Witness ==
    \A i \in insts : k[i] = 1 /\ pc[i] \in Working

====
